---- MODULE Spec2Model ----
(***************************************************************************)
(* MedReminder: the AsyncStorage-backed record repository                  *)
(* (src/utils/storage.ts) and the calendar screen's scheduling predicate   *)
(* (src/unnamed/part_000, isMedicationScheduledForDate).                   *)
(*                                                                         *)
(* Every repository function is an async function: it runs synchronously   *)
(* up to an `await` of an AsyncStorage call and resumes after it.  One     *)
(* action of the model is one AsyncStorage access of one call together     *)
(* with the synchronous code that follows it up to the next await.  The    *)
(* action that starts a call performs its first access.  Tasks are the     *)
(* callers whose calls may overlap (two taps on the Take button).          *)
(***************************************************************************)
EXTENDS Integers, Sequences, FiniteSets, TLC

VARIABLES
    medsBlob,   \* value stored under MEDICATIONS_KEY
    histBlob,   \* value stored under DOSE_HISTORY_KEY
    pc,         \* pc[t]: the await at which task t's call is suspended
    op,         \* op[t]: the repository function task t is running
    arg,        \* arg[t]: the arguments of that call
    lmeds,      \* lmeds[t]: the call's local medication array, and what
                \* a returned getMedications call has returned
    lhist,      \* lhist[t]: the same for the dose-history array
    lmed,       \* lmed[t]: recordDose's local `medication`
    preMeds,    \* preMeds[t]: medsBlob when the call started
    preHist,    \* preHist[t]: histBlob when the call started
    alone,      \* alone[t]: no other call has overlapped this call so far
    faulted,    \* faulted[t]: a read of this call failed and was swallowed
    wfailed,    \* wfailed[t]: a setItem or removeItem of this call rejected
    last,       \* the task whose call returned in the latest step, if any
    tz,         \* the device's offset from UTC, in ticks
    query       \* the latest evaluation of isMedicationScheduledForDate

vars == <<medsBlob, histBlob, pc, op, arg, lmeds, lhist, lmed, preMeds, preHist,
          alone, faulted, wfailed, last, tz, query>>

storeVars == <<medsBlob, histBlob, pc, op, arg, lmeds, lhist, lmed, preMeds,
               preHist, alone, faulted, wfailed, last>>

-----------------------------------------------------------------------------
(* Bounds of the model *)

MaxSupply == 2      \* currentSupply of the medications passed in: 0..MaxSupply
MaxDate == 3        \* instants used as startDate, timestamp and range bounds

Tasks == {"t1", "t2"}
MedIds == {"a", "b"}
DoseIds == {"r1", "r2"}
Supplies == 0..MaxSupply
Dates == 1..MaxDate
Timestamps == {MaxDate}

-----------------------------------------------------------------------------
(* Values *)

Undefined == "undefined"
Ongoing == "Ongoing"
MedKeys == {"id", "startDate", "duration", "currentSupply", "lastRefillDate"}
DoseKeys == {"id", "medicationId", "timestamp", "taken"}

\* A Medication object; an optional field that is not set holds undefined.
Medication(id, startDate, duration, currentSupply, lastRefillDate) ==
    [id |-> id, startDate |-> startDate, duration |-> duration,
     currentSupply |-> currentSupply, lastRefillDate |-> lastRefillDate]

\* o[k] of a JavaScript object: undefined when the object has no such key.
Get(o, k) == IF k \in DOMAIN o THEN o[k] ELSE Undefined

SameFields(o1, o2, keys) == \A k \in keys : Get(o1, k) = Get(o2, k)

SameList(l1, l2, keys) ==
    /\ Len(l1) = Len(l2)
    /\ \A i \in 1..Len(l1) : SameFields(l1[i], l2[i], keys)

\* JSON.stringify of an array of objects: a key whose value is undefined is
\* left out of the text.  A text is represented by the array JSON.parse
\* gives for it: objects that have exactly the keys written in the text.
OptionalKeys == {"lastRefillDate"}
IsUndefined(o, k) == k \in OptionalKeys /\ o[k] = Undefined
StringifyObject(o) == [k \in {j \in DOMAIN o : ~IsUndefined(o, j)} |-> o[k]]
Stringify(list) == [i \in 1..Len(list) |-> StringifyObject(list[i])]

\* A key of the store: no item (getItem gives null) or a stored text.
NoItem == [present |-> FALSE, text |-> <<>>]
Item(text) == [present |-> TRUE, text |-> text]

NoMed == Medication("", 0, Ongoing, 0, Undefined)
NoArg == [m |-> NoMed, id |-> "", taken |-> FALSE, timestamp |-> 0,
          startDate |-> 0, endDate |-> 0]

\* The medications the callers pass to addMedication and updateMedication.
MedA(supply) == Medication("a", 2, Ongoing, supply, Undefined)
MedB(supply) == Medication("b", 1, Ongoing, supply, "2024-01-05")
MedInputs == {MedA(s) : s \in Supplies} \cup {MedB(s) : s \in Supplies}

-----------------------------------------------------------------------------
(* The synchronous code of src/utils/storage.ts *)

\* getMedications: the parsed array, [] when there is no item, [] when
\* getItem rejects (fail).
getMedications(fail) ==
    IF fail THEN <<>>
    ELSE IF medsBlob.present THEN medsBlob.text ELSE <<>>

\* getDoseHistory: the same over DOSE_HISTORY_KEY.
getDoseHistory(fail) ==
    IF fail THEN <<>>
    ELSE IF histBlob.present THEN histBlob.text ELSE <<>>

\* Array.prototype.findIndex on the id: the first index (from 1) of an entry
\* with that id, -1 when there is none.
FindIndex(list, id) ==
    IF \E i \in 1..Len(list) : Get(list[i], "id") = id
    THEN CHOOSE i \in 1..Len(list) :
            /\ Get(list[i], "id") = id
            /\ \A j \in 1..(i - 1) : Get(list[j], "id") # id
    ELSE -1

\* addMedication: medications.push(medication)
Pushed(list, x) == Append(list, x)

\* updateMedication: medications[index] = updatedMedication
Replaced(list, index, m) == [list EXCEPT ![index] = m]

\* deleteMedication: medications.filter((med) => med.id !== id)
WithoutId(list, id) == SelectSeq(list, LAMBDA med : Get(med, "id") # id)

\* recordDose: the new DoseHistory entry
NewDose(newId, medicationId, timestamp, taken) ==
    [id |-> newId, medicationId |-> medicationId, timestamp |-> timestamp,
     taken |-> taken]

\* Variants with one slip each, used to show that the properties of the
\* repository depend on these definitions.
CanDecrementAtZero(list, index) ==
    /\ index # -1
    /\ "currentSupply" \in DOMAIN list[index]

DecrementForgotten(medication) == medication

\* recordDose: medication && medication.currentSupply > 0
CanDecrement(list, index) ==
    /\ index # -1
    /\ "currentSupply" \in DOMAIN list[index]
    /\ list[index].currentSupply > 0

\* recordDose: medication.currentSupply -= 1
Decremented(medication) ==
    [medication EXCEPT !.currentSupply = @ - 1]

\* clearDataForDateRange: the entries kept by the two filters.  A stored
\* ISO date text is represented by the instant new Date(text) gives for it.
OutsideRange(date, startDate, endDate) == date < startDate \/ date > endDate

MedsOutsideRange(list, startDate, endDate) ==
    SelectSeq(list, LAMBDA med :
        OutsideRange(Get(med, "startDate"), startDate, endDate))

DosesOutsideRange(list, startDate, endDate) ==
    SelectSeq(list, LAMBDA dose :
        OutsideRange(Get(dose, "timestamp"), startDate, endDate))

\* clearOldData: the entries kept by the two filters
NotBefore(date, beforeDate) == date >= beforeDate

MedsNotBefore(list, beforeDate) ==
    SelectSeq(list, LAMBDA med :
        NotBefore(Get(med, "startDate"), beforeDate))

DosesNotBefore(list, beforeDate) ==
    SelectSeq(list, LAMBDA dose :
        NotBefore(Get(dose, "timestamp"), beforeDate))

-----------------------------------------------------------------------------
(* Calls: starting, suspending at an await, returning *)

\* Each task makes one call: pc[t] is "idle" before it, the await at which
\* it is suspended while it runs, and the state of its promise after it.
Returned(u) == pc[u] \in {"resolved", "rejected"}
Running(u) == pc[u] # "idle" /\ ~Returned(u)
Quiet(t) == \A u \in Tasks \ {t} : ~Running(u)

\* The tasks are named in the order in which they call.
First == "t1"
MayCall(t) ==
    /\ pc[t] = "idle"
    /\ t = First \/ pc[First] # "idle"
    /\ \A u \in Tasks : Running(u) => ~faulted[u]

\* The outcomes of a getItem of task t's call: TRUE when it rejects.  A
\* rejected read is injected into calls that no other call overlaps.
ReadFails(t) == IF alone[t] /\ Quiet(t) THEN BOOLEAN ELSE {FALSE}

\* The catch block of every mutating function: console.error(...) and
\* `throw error`, which rejects the promise of the call.
Swallowed == "resolved"

Rethrown == "rejected"

\* Task t calls `name`; after the first access the call is at `next`.
Started(t, name, a, next, fail) ==
    /\ MayCall(t)
    /\ pc' = [pc EXCEPT ![t] = next]
    /\ op' = [op EXCEPT ![t] = name]
    /\ arg' = [arg EXCEPT ![t] = a]
    /\ preMeds' = [preMeds EXCEPT ![t] = medsBlob]
    /\ preHist' = [preHist EXCEPT ![t] = histBlob]
    /\ alone' = [u \in Tasks |->
                    IF u = t THEN Quiet(t) ELSE alone[u] /\ ~Running(u)]
    /\ faulted' = [faulted EXCEPT ![t] = fail]
    /\ last' = IF next \in {"resolved", "rejected"} THEN t ELSE "none"

Begin(t, name, a, next, fail) ==
    /\ Started(t, name, a, next, fail)
    /\ UNCHANGED wfailed

\* Task t calls `name` and its first access, a write, rejects.
BeginThrow(t, name, a) ==
    /\ Started(t, name, a, Rethrown, FALSE)
    /\ wfailed' = [wfailed EXCEPT ![t] = TRUE]

\* The call of task t resumes at `at` and suspends again at `next`.
Step(t, at, next, fail) ==
    /\ pc[t] = at
    /\ pc' = [pc EXCEPT ![t] = next]
    /\ faulted' = [faulted EXCEPT ![t] = @ \/ fail]
    /\ last' = "none"
    /\ UNCHANGED <<op, arg, preMeds, preHist, alone, wfailed>>

\* The call of task t resumes at `at` and returns: its promise is
\* "resolved", or "rejected" when the call throws.
Ended(t, at, fail, promise) ==
    /\ pc[t] = at
    /\ pc' = [pc EXCEPT ![t] = promise]
    /\ faulted' = [faulted EXCEPT ![t] = @ \/ fail]
    /\ last' = t
    /\ lmeds' = [lmeds EXCEPT ![t] = <<>>]
    /\ lhist' = [lhist EXCEPT ![t] = <<>>]
    /\ lmed' = [lmed EXCEPT ![t] = NoMed]
    /\ UNCHANGED <<op, arg, preMeds, preHist, alone>>

Return(t, at, fail, promise) ==
    /\ Ended(t, at, fail, promise)
    /\ UNCHANGED wfailed

\* The write at which the call of task t is suspended rejects: the catch
\* block runs and the call ends.
Throw(t, at) ==
    /\ Ended(t, at, FALSE, Rethrown)
    /\ wfailed' = [wfailed EXCEPT ![t] = TRUE]

-----------------------------------------------------------------------------
(* getMedications, getDoseHistory *)

\* A variant without the try/catch: a rejected getItem rejects the call.
CallGetMedicationsUncaught(t) ==
    \E fail \in ReadFails(t) :
        /\ Begin(t, "getMedications", NoArg,
                 IF fail THEN "rejected" ELSE "resolved", fail)
        /\ lmeds' = [lmeds EXCEPT ![t] = getMedications(fail)]
        /\ UNCHANGED <<medsBlob, histBlob, lhist, lmed, tz, query>>

CallGetMedications(t) ==
    \E fail \in ReadFails(t) :
        /\ Begin(t, "getMedications", NoArg, "resolved", fail)
        /\ lmeds' = [lmeds EXCEPT ![t] = getMedications(fail)]
        /\ UNCHANGED <<medsBlob, histBlob, lhist, lmed, tz, query>>

CallGetDoseHistory(t) ==
    \E fail \in ReadFails(t) :
        /\ Begin(t, "getDoseHistory", NoArg, "resolved", fail)
        /\ lhist' = [lhist EXCEPT ![t] = getDoseHistory(fail)]
        /\ UNCHANGED <<medsBlob, histBlob, lmeds, lmed, tz, query>>

-----------------------------------------------------------------------------
(* addMedication *)

AddMedicationRead(t) ==
    \E m \in MedInputs, fail \in ReadFails(t) :
        /\ Begin(t, "addMedication", [NoArg EXCEPT !.m = m], "add_setItem",
                 fail)
        /\ lmeds' = [lmeds EXCEPT ![t] = Pushed(getMedications(fail), m)]
        /\ UNCHANGED <<medsBlob, histBlob, lhist, lmed, tz, query>>

AddMedicationWrite(t) ==
    \/ /\ Return(t, "add_setItem", FALSE, "resolved")
       /\ medsBlob' = Item(Stringify(lmeds[t]))
       /\ UNCHANGED <<histBlob, tz, query>>
    \/ /\ Throw(t, "add_setItem")
       /\ UNCHANGED <<medsBlob, histBlob, tz, query>>

-----------------------------------------------------------------------------
(* updateMedication *)

UpdateMedicationRead(t) ==
    \E m \in MedInputs, fail \in ReadFails(t) :
        LET medications == getMedications(fail)
            index == FindIndex(medications, m.id)
        IN  IF index # -1
            THEN /\ Begin(t, "updateMedication", [NoArg EXCEPT !.m = m],
                          "upd_setItem", fail)
                 /\ lmeds' = [lmeds EXCEPT
                                ![t] = Replaced(medications, index, m)]
                 /\ UNCHANGED <<medsBlob, histBlob, lhist, lmed, tz, query>>
            ELSE /\ Begin(t, "updateMedication", [NoArg EXCEPT !.m = m],
                          "resolved", fail)
                 /\ UNCHANGED <<medsBlob, histBlob, lmeds, lhist, lmed, tz,
                                query>>

UpdateMedicationWrite(t) ==
    \/ /\ Return(t, "upd_setItem", FALSE, "resolved")
       /\ medsBlob' = Item(Stringify(lmeds[t]))
       /\ UNCHANGED <<histBlob, tz, query>>
    \/ /\ Throw(t, "upd_setItem")
       /\ UNCHANGED <<medsBlob, histBlob, tz, query>>

-----------------------------------------------------------------------------
(* deleteMedication *)

DeleteMedicationRead(t) ==
    \E id \in MedIds, fail \in ReadFails(t) :
        /\ Begin(t, "deleteMedication", [NoArg EXCEPT !.id = id],
                 "del_setItem", fail)
        /\ lmeds' = [lmeds EXCEPT ![t] = WithoutId(getMedications(fail), id)]
        /\ UNCHANGED <<medsBlob, histBlob, lhist, lmed, tz, query>>

\* A variant that also removes the doses of the deleted medication.
DeleteMedicationWriteCascading(t) ==
    \/ /\ Return(t, "del_setItem", FALSE, "resolved")
       /\ medsBlob' = Item(Stringify(lmeds[t]))
       /\ histBlob' = Item(SelectSeq(getDoseHistory(FALSE), LAMBDA dose :
                                Get(dose, "medicationId") # arg[t].id))
       /\ UNCHANGED <<tz, query>>
    \/ /\ Throw(t, "del_setItem")
       /\ UNCHANGED <<medsBlob, histBlob, tz, query>>

DeleteMedicationWrite(t) ==
    \/ /\ Return(t, "del_setItem", FALSE, "resolved")
       /\ medsBlob' = Item(Stringify(lmeds[t]))
       /\ UNCHANGED <<histBlob, tz, query>>
    \/ /\ Throw(t, "del_setItem")
       /\ UNCHANGED <<medsBlob, histBlob, tz, query>>

-----------------------------------------------------------------------------
(* recordDose *)

\* getDoseHistory, history.push(newDose); the id is Math.random's.
RecordDoseReadHistory(t) ==
    \E id \in MedIds, taken \in BOOLEAN, timestamp \in Timestamps,
       newId \in DoseIds, fail \in ReadFails(t) :
        /\ Begin(t, "recordDose",
                 [NoArg EXCEPT !.id = id, !.taken = taken,
                               !.timestamp = timestamp],
                 "rec_setItem", fail)
        /\ lhist' = [lhist EXCEPT
                       ![t] = Pushed(getDoseHistory(fail),
                                     NewDose(newId, id, timestamp, taken))]
        /\ UNCHANGED <<medsBlob, histBlob, lmeds, lmed, tz, query>>

\* setItem(DOSE_HISTORY_KEY, ...), then `if (taken)`
RecordDoseWriteHistory(t) ==
    \/ /\ arg[t].taken
       /\ Step(t, "rec_setItem", "rec_getMedications", FALSE)
       /\ histBlob' = Item(Stringify(lhist[t]))
       /\ UNCHANGED <<medsBlob, lmeds, lhist, lmed, tz, query>>
    \/ /\ ~arg[t].taken
       /\ Return(t, "rec_setItem", FALSE, "resolved")
       /\ histBlob' = Item(Stringify(lhist[t]))
       /\ UNCHANGED <<medsBlob, tz, query>>
    \/ /\ Throw(t, "rec_setItem")
       /\ UNCHANGED <<medsBlob, histBlob, tz, query>>

\* getMedications, find, `medication && medication.currentSupply > 0`,
\* `medication.currentSupply -= 1`, and the call of updateMedication
RecordDoseReadMedications(t) ==
    \E fail \in ReadFails(t) :
        LET medications == getMedications(fail)
            index == FindIndex(medications, arg[t].id)
        IN  IF CanDecrement(medications, index)
            THEN /\ Step(t, "rec_getMedications", "rec_upd_getMedications",
                         fail)
                 /\ lmed' = [lmed EXCEPT
                               ![t] = Decremented(medications[index])]
                 /\ UNCHANGED <<medsBlob, histBlob, lmeds, lhist, tz, query>>
            ELSE /\ Return(t, "rec_getMedications", fail, "resolved")
                 /\ UNCHANGED <<medsBlob, histBlob, tz, query>>

\* updateMedication(medication): getMedications, findIndex
RecordDoseUpdateRead(t) ==
    \E fail \in ReadFails(t) :
        LET medications == getMedications(fail)
            index == FindIndex(medications, Get(lmed[t], "id"))
        IN  IF index # -1
            THEN /\ Step(t, "rec_upd_getMedications", "rec_upd_setItem",
                         fail)
                 /\ lmeds' = [lmeds EXCEPT
                                ![t] = Replaced(medications, index, lmed[t])]
                 /\ UNCHANGED <<medsBlob, histBlob, lhist, lmed, tz, query>>
            ELSE /\ Return(t, "rec_upd_getMedications", fail, "resolved")
                 /\ UNCHANGED <<medsBlob, histBlob, tz, query>>

\* updateMedication(medication): setItem(MEDICATIONS_KEY, ...)
RecordDoseUpdateWrite(t) ==
    \/ /\ Return(t, "rec_upd_setItem", FALSE, "resolved")
       /\ medsBlob' = Item(Stringify(lmeds[t]))
       /\ UNCHANGED <<histBlob, tz, query>>
    \/ /\ Throw(t, "rec_upd_setItem")
       /\ UNCHANGED <<medsBlob, histBlob, tz, query>>

-----------------------------------------------------------------------------
(* clearAllData *)

ClearAllDataRemoveMedications(t) ==
    \/ /\ Begin(t, "clearAllData", NoArg, "all_removeItem", FALSE)
       /\ medsBlob' = NoItem
       /\ UNCHANGED <<histBlob, lmeds, lhist, lmed, tz, query>>
    \/ /\ BeginThrow(t, "clearAllData", NoArg)
       /\ UNCHANGED <<medsBlob, histBlob, lmeds, lhist, lmed, tz, query>>

ClearAllDataRemoveHistory(t) ==
    \/ /\ Return(t, "all_removeItem", FALSE, "resolved")
       /\ histBlob' = NoItem
       /\ UNCHANGED <<medsBlob, tz, query>>
    \/ /\ Throw(t, "all_removeItem")
       /\ UNCHANGED <<medsBlob, histBlob, tz, query>>

-----------------------------------------------------------------------------
(* clearDataForDateRange *)

ClearRangeReadMedications(t) ==
    \E startDate \in Dates, endDate \in Dates, fail \in ReadFails(t) :
        /\ startDate <= endDate
        /\ Begin(t, "clearDataForDateRange",
                 [NoArg EXCEPT !.startDate = startDate, !.endDate = endDate],
                 "range_getDoseHistory", fail)
        /\ lmeds' = [lmeds EXCEPT ![t] = getMedications(fail)]
        /\ UNCHANGED <<medsBlob, histBlob, lhist, lmed, tz, query>>

\* getDoseHistory, then the two filters
ClearRangeReadHistory(t) ==
    \E fail \in ReadFails(t) :
        /\ Step(t, "range_getDoseHistory", "range_setMedications", fail)
        /\ lmeds' = [lmeds EXCEPT
                       ![t] = MedsOutsideRange(lmeds[t], arg[t].startDate,
                                               arg[t].endDate)]
        /\ lhist' = [lhist EXCEPT
                       ![t] = DosesOutsideRange(getDoseHistory(fail),
                                                arg[t].startDate,
                                                arg[t].endDate)]
        /\ UNCHANGED <<medsBlob, histBlob, lmed, tz, query>>

ClearRangeWriteMedications(t) ==
    \/ /\ Step(t, "range_setMedications", "range_setDoseHistory", FALSE)
       /\ medsBlob' = Item(Stringify(lmeds[t]))
       /\ UNCHANGED <<histBlob, lmeds, lhist, lmed, tz, query>>
    \/ /\ Throw(t, "range_setMedications")
       /\ UNCHANGED <<medsBlob, histBlob, tz, query>>

ClearRangeWriteHistory(t) ==
    \/ /\ Return(t, "range_setDoseHistory", FALSE, "resolved")
       /\ histBlob' = Item(Stringify(lhist[t]))
       /\ UNCHANGED <<medsBlob, tz, query>>
    \/ /\ Throw(t, "range_setDoseHistory")
       /\ UNCHANGED <<medsBlob, histBlob, tz, query>>

-----------------------------------------------------------------------------
(* clearOldData *)

ClearOldReadMedications(t) ==
    \E beforeDate \in Dates, fail \in ReadFails(t) :
        /\ Begin(t, "clearOldData", [NoArg EXCEPT !.startDate = beforeDate],
                 "old_getDoseHistory", fail)
        /\ lmeds' = [lmeds EXCEPT ![t] = getMedications(fail)]
        /\ UNCHANGED <<medsBlob, histBlob, lhist, lmed, tz, query>>

\* getDoseHistory, then the two filters
ClearOldReadHistory(t) ==
    \E fail \in ReadFails(t) :
        /\ Step(t, "old_getDoseHistory", "old_setMedications", fail)
        /\ lmeds' = [lmeds EXCEPT
                       ![t] = MedsNotBefore(lmeds[t], arg[t].startDate)]
        /\ lhist' = [lhist EXCEPT
                       ![t] = DosesNotBefore(getDoseHistory(fail),
                                             arg[t].startDate)]
        /\ UNCHANGED <<medsBlob, histBlob, lmed, tz, query>>

ClearOldWriteMedications(t) ==
    \/ /\ Step(t, "old_setMedications", "old_setDoseHistory", FALSE)
       /\ medsBlob' = Item(Stringify(lmeds[t]))
       /\ UNCHANGED <<histBlob, lmeds, lhist, lmed, tz, query>>
    \/ /\ Throw(t, "old_setMedications")
       /\ UNCHANGED <<medsBlob, histBlob, tz, query>>

ClearOldWriteHistory(t) ==
    \/ /\ Return(t, "old_setDoseHistory", FALSE, "resolved")
       /\ histBlob' = Item(Stringify(lhist[t]))
       /\ UNCHANGED <<medsBlob, tz, query>>
    \/ /\ Throw(t, "old_setDoseHistory")
       /\ UNCHANGED <<medsBlob, histBlob, tz, query>>

-----------------------------------------------------------------------------
(* The repository: initial states and next-state relation *)

DoseA == NewDose("r1", "a", 1, TRUE)
DoseB == NewDose("r2", "b", MaxDate, FALSE)

\* What the store holds when the application starts: nothing (a fresh
\* installation), or what earlier runs have left in it: medications and
\* doses, or medications of which no dose has been recorded yet.
Stored ==
    {<<NoItem, NoItem>>}
    \cup {<<Item(Stringify(<<MedB(1), MedA(s)>>)),
            Item(Stringify(<<DoseA, DoseB>>))>> : s \in Supplies}
    \cup {<<Item(Stringify(<<MedB(1), MedA(MaxSupply)>>)), NoItem>>}

NoQuery == [asked |-> FALSE, medication |-> NoMed, date |-> 0,
            result |-> FALSE]

Init ==
    /\ \E st \in Stored : medsBlob = st[1] /\ histBlob = st[2]
    /\ pc = [t \in Tasks |-> "idle"]
    /\ op = [t \in Tasks |-> "none"]
    /\ arg = [t \in Tasks |-> NoArg]
    /\ lmeds = [t \in Tasks |-> <<>>]
    /\ lhist = [t \in Tasks |-> <<>>]
    /\ lmed = [t \in Tasks |-> NoMed]
    /\ preMeds = [t \in Tasks |-> NoItem]
    /\ preHist = [t \in Tasks |-> NoItem]
    /\ alone = [t \in Tasks |-> TRUE]
    /\ faulted = [t \in Tasks |-> FALSE]
    /\ wfailed = [t \in Tasks |-> FALSE]
    /\ last = "none"
    /\ tz = 0
    /\ query = NoQuery

Next ==
    \E t \in Tasks :
        \/ CallGetMedications(t)
        \/ CallGetDoseHistory(t)
        \/ AddMedicationRead(t)
        \/ AddMedicationWrite(t)
        \/ UpdateMedicationRead(t)
        \/ UpdateMedicationWrite(t)
        \/ DeleteMedicationRead(t)
        \/ DeleteMedicationWrite(t)
        \/ RecordDoseReadHistory(t)
        \/ RecordDoseWriteHistory(t)
        \/ RecordDoseReadMedications(t)
        \/ RecordDoseUpdateRead(t)
        \/ RecordDoseUpdateWrite(t)
        \/ ClearAllDataRemoveMedications(t)
        \/ ClearAllDataRemoveHistory(t)
        \/ ClearRangeReadMedications(t)
        \/ ClearRangeReadHistory(t)
        \/ ClearRangeWriteMedications(t)
        \/ ClearRangeWriteHistory(t)
        \/ ClearOldReadMedications(t)
        \/ ClearOldReadHistory(t)
        \/ ClearOldWriteMedications(t)
        \/ ClearOldWriteHistory(t)

Spec == Init /\ [][Next]_vars

-----------------------------------------------------------------------------
(* Date, String.prototype.match(/(\d+)/) and parseInt, as                  *)
(* isMedicationScheduledForDate uses them                                  *)

\* A Date holds an instant, in ticks from 2023-12-01T00:00Z; a day has
\* TicksPerDay ticks.  Its calendar fields are those of local time, which
\* is tz ticks ahead of UTC.
TicksPerDay == 2
TzOffsets == {-1, 0, 1}
MonthLengths == <<31, 31, 29, 31, 30>>      \* December 2023 .. April 2024

RECURSIVE DaysBefore(_)
DaysBefore(month) ==
    IF month <= 1 THEN 0 ELSE DaysBefore(month - 1) + MonthLengths[month - 1]

LocalDay(time) == (time + tz) \div TicksPerDay
LocalTimeOfDay(time) == (time + tz) % TicksPerDay
FromLocal(day, timeOfDay) == day * TicksPerDay + timeOfDay - tz

MonthOf(day) ==
    CHOOSE month \in 1..Len(MonthLengths) :
        DaysBefore(month) <= day /\ day < DaysBefore(month + 1)

\* Date.prototype.setHours(0, 0, 0, 0)
SetHoursZero(time) == FromLocal(LocalDay(time), 0)

\* Date.prototype.getDate(): the day of the month, from 1
GetDate(time) == LocalDay(time) - DaysBefore(MonthOf(LocalDay(time))) + 1

\* Date.prototype.setDate(d): day d of the date's month; a d outside the
\* month moves into the months before or after it.
SetDate(time, dayOfMonth) ==
    FromLocal(DaysBefore(MonthOf(LocalDay(time))) + dayOfMonth - 1,
              LocalTimeOfDay(time))

\* The characters of the duration texts the model uses.
Chars(text) ==
    CASE text = "Ongoing" -> <<"O", "n", "g", "o", "i", "n", "g">>
      [] text = "ongoing" -> <<"o", "n", "g", "o", "i", "n", "g">>
      [] text = "As needed" -> <<"A", "s", " ", "n", "e", "e", "d", "e", "d">>
      [] text = "0 days" -> <<"0", " ", "d", "a", "y", "s">>
      [] text = "1 day" -> <<"1", " ", "d", "a", "y">>
      [] text = "2 days" -> <<"2", " ", "d", "a", "y", "s">>
      [] text = "30 days" -> <<"3", "0", " ", "d", "a", "y", "s">>
      [] text = "for 3 days x2" ->
            <<"f", "o", "r", " ", "3", " ", "d", "a", "y", "s", " ", "x", "2">>

Digits == <<"0", "1", "2", "3", "4", "5", "6", "7", "8", "9">>
IsDigit(char) == \E i \in 1..Len(Digits) : Digits[i] = char
DigitValue(char) == (CHOOSE i \in 1..Len(Digits) : Digits[i] = char) - 1

\* text.match(/(\d+)/)[1]: the first, longest run of digits; <<>> stands
\* for the null of a text without a digit.
Match(chars) ==
    IF \E i \in 1..Len(chars) : IsDigit(chars[i])
    THEN LET from == CHOOSE i \in 1..Len(chars) :
                        /\ IsDigit(chars[i])
                        /\ \A j \in 1..(i - 1) : ~IsDigit(chars[j])
             to == CHOOSE j \in from..Len(chars) :
                        /\ \A k \in from..j : IsDigit(chars[k])
                        /\ j = Len(chars) \/ ~IsDigit(chars[j + 1])
         IN  SubSeq(chars, from, to)
    ELSE <<>>

RECURSIVE ParseInt(_)
ParseInt(digits) ==
    IF digits = <<>> THEN 0
    ELSE ParseInt(SubSeq(digits, 1, Len(digits) - 1)) * 10
         + DigitValue(digits[Len(digits)])

-----------------------------------------------------------------------------
(* isMedicationScheduledForDate *)

\* Variants of the predicate with one slip each, used to show that the
\* properties below depend on it.
isScheduledEndNotInclusive(medication, date) ==
    LET startDate == SetHoursZero(medication.startDate)
        selectedDate == SetHoursZero(date)
        durationMatch == Match(Chars(medication.duration))
        durationDays == ParseInt(durationMatch)
        endDate == SetDate(startDate, GetDate(startDate) + durationDays)
    IN  IF selectedDate < startDate THEN FALSE
        ELSE IF /\ medication.duration # "Ongoing"
                /\ durationMatch # <<>>
                /\ selectedDate > endDate
             THEN FALSE
             ELSE TRUE

isScheduledNoStartCheck(medication, date) ==
    LET startDate == medication.startDate
        selectedDate == SetHoursZero(date)
        durationMatch == Match(Chars(medication.duration))
        durationDays == ParseInt(durationMatch)
        endDate == SetDate(startDate, GetDate(startDate) + durationDays - 1)
    IN  IF /\ medication.duration # "Ongoing"
           /\ durationMatch # <<>>
           /\ selectedDate > endDate
        THEN FALSE
        ELSE TRUE

isScheduledStartDayExcluded(medication, date) ==
    LET startDate == SetHoursZero(medication.startDate)
        selectedDate == SetHoursZero(date)
        durationMatch == Match(Chars(medication.duration))
        durationDays == ParseInt(durationMatch)
        endDate == SetDate(startDate, GetDate(startDate) + durationDays - 1)
    IN  IF selectedDate <= startDate THEN FALSE
        ELSE IF /\ medication.duration # "Ongoing"
                /\ durationMatch # <<>>
                /\ selectedDate > endDate
             THEN FALSE
             ELSE TRUE

isScheduledNoMatchBounded(medication, date) ==
    LET startDate == SetHoursZero(medication.startDate)
        selectedDate == SetHoursZero(date)
        durationMatch == Match(Chars(medication.duration))
        durationDays == ParseInt(durationMatch)
        endDate == SetDate(startDate, GetDate(startDate) + durationDays - 1)
    IN  IF selectedDate < startDate THEN FALSE
        ELSE IF /\ medication.duration # "Ongoing"
                /\ selectedDate > endDate
             THEN FALSE
             ELSE TRUE

isMedicationScheduledForDate(medication, date) ==
    LET startDate == SetHoursZero(medication.startDate)
        selectedDate == SetHoursZero(date)
        durationMatch == Match(Chars(medication.duration))
        durationDays == ParseInt(durationMatch)
        endDate == SetDate(startDate, GetDate(startDate) + durationDays - 1)
    IN  IF selectedDate < startDate THEN FALSE
        ELSE IF /\ medication.duration # "Ongoing"
                /\ durationMatch # <<>>
                /\ selectedDate > endDate
             THEN FALSE
             ELSE TRUE

\* The calendar screen evaluates the predicate for a medication of its
\* state and the date of a calendar cell or the selected date.
MaxSpan == 61       \* the dates asked about: up to MaxSpan days after 2024-01-01
Jan1 == DaysBefore(2)
Jan31 == DaysBefore(3) - 1
Durations == {"Ongoing", "ongoing", "As needed", "0 days", "1 day", "2 days",
              "30 days", "for 3 days x2"}
Instants(days) == {day * TicksPerDay + tick :
                        day \in days, tick \in 0..(TicksPerDay - 1)}
StartInstants == Instants({Jan1, Jan1 + 1, Jan31})
QueryInstants == Instants((Jan1 - 1)..(Jan1 + MaxSpan))
ScreenMedications ==
    {Medication("a", start, duration, 1, Undefined) :
        start \in StartInstants, duration \in Durations}

EvaluateIsScheduled ==
    /\ ~query.asked
    /\ \E medication \in ScreenMedications, date \in QueryInstants :
            query' = [asked |-> TRUE, medication |-> medication,
                      date |-> date,
                      result |-> isMedicationScheduledForDate(medication,
                                                              date)]
    /\ UNCHANGED <<tz, storeVars>>

SchedInit ==
    /\ medsBlob = NoItem
    /\ histBlob = NoItem
    /\ pc = [t \in Tasks |-> "idle"]
    /\ op = [t \in Tasks |-> "none"]
    /\ arg = [t \in Tasks |-> NoArg]
    /\ lmeds = [t \in Tasks |-> <<>>]
    /\ lhist = [t \in Tasks |-> <<>>]
    /\ lmed = [t \in Tasks |-> NoMed]
    /\ preMeds = [t \in Tasks |-> NoItem]
    /\ preHist = [t \in Tasks |-> NoItem]
    /\ alone = [t \in Tasks |-> TRUE]
    /\ faulted = [t \in Tasks |-> FALSE]
    /\ wfailed = [t \in Tasks |-> FALSE]
    /\ last = "none"
    /\ tz \in TzOffsets
    /\ query = NoQuery

SchedNext == EvaluateIsScheduled

SchedSpec == SchedInit /\ [][SchedNext]_vars

-----------------------------------------------------------------------------
(* Properties of the repository (checked under Spec) *)

\* The persisted collections, as a successful read gives them.
Meds == getMedications(FALSE)
Hist == getDoseHistory(FALSE)
ListOf(item) == IF item.present THEN item.text ELSE <<>>

\* The collections when the call of task t started.
MedsBefore(t) == ListOf(preMeds[t])
HistBefore(t) == ListOf(preHist[t])

HasId(list, id) == \E i \in 1..Len(list) : list[i].id = id
FirstWithId(list, id) ==
    CHOOSE i \in 1..Len(list) :
        list[i].id = id /\ \A j \in 1..(i - 1) : list[j].id # id
SupplyOf(list, id) == list[FirstWithId(list, id)].currentSupply

\* The entries of a list that satisfy Keep, in their order.
Remaining(list, Keep(_)) == SelectSeq(list, Keep)

\* The call of task t has just returned, its promise resolved, and no
\* other call has overlapped it.
ResolvedAlone(t, name) ==
    last = t /\ pc[t] = "resolved" /\ op[t] = name /\ alone[t]

\* Both tasks have called recordDose(id, true, ...), the calls overlapped
\* and both promises have resolved.
BothTookOverlapping(id1, id2) ==
    /\ \A t \in Tasks :
            pc[t] = "resolved" /\ op[t] = "recordDose" /\ arg[t].taken
    /\ arg["t1"].id = id1 /\ arg["t2"].id = id2
    /\ ~alone["t1"] /\ ~alone["t2"]

\* C1: two overlapping recordDose(id, true, ...) calls for one medication
\* with currentSupply = 2 leave its persisted currentSupply at 0: both
\* decrements are applied.
C1_OverlappingDosesBothDecrement ==
    (/\ BothTookOverlapping("a", "a")
     /\ HasId(MedsBefore("t1"), "a")
     /\ SupplyOf(MedsBefore("t1"), "a") = 2)
    => (HasId(Meds, "a") /\ SupplyOf(Meds, "a") = 0)

\* C2: every persisted medication has currentSupply >= 0 (the medications
\* passed to addMedication and updateMedication have currentSupply >= 0).
C2_SupplyNeverNegative ==
    \A i \in 1..Len(Meds) : Meds[i].currentSupply >= 0

\* Two overlapping doses of a medication with one dose left: it has none
\* left afterwards.
C2_Witness ==
    /\ BothTookOverlapping("a", "a")
    /\ HasId(MedsBefore("t1"), "a")
    /\ SupplyOf(MedsBefore("t1"), "a") = 1
    /\ HasId(Meds, "a")
    /\ SupplyOf(Meds, "a") = 0

\* C3: a recordDose(id, true, t) that runs alone and without a store
\* failure on a stored medication takes exactly one from a currentSupply
\* > 0 and leaves a currentSupply of 0 at 0; every other medication and
\* every other field is unchanged.
C3_DoseAloneDecrementsByOne ==
    \A t \in Tasks :
        (/\ ResolvedAlone(t, "recordDose")
         /\ arg[t].taken
         /\ ~faulted[t]
         /\ HasId(MedsBefore(t), arg[t].id))
        => LET before == MedsBefore(t)
               i == FirstWithId(before, arg[t].id)
               supply == before[i].currentSupply
           IN  Meds = [before EXCEPT
                          ![i].currentSupply =
                              IF supply > 0 THEN supply - 1 ELSE 0]

\* From currentSupply = 1, two successive calls: 0 after the first and
\* still 0 after the second.
C3_Witness ==
    /\ ResolvedAlone("t2", "recordDose")
    /\ pc["t1"] = "resolved" /\ op["t1"] = "recordDose" /\ alone["t1"]
    /\ arg["t1"].taken /\ arg["t2"].taken
    /\ arg["t1"].id = "a" /\ arg["t2"].id = "a"
    /\ ~faulted["t1"] /\ ~faulted["t2"]
    /\ HasId(MedsBefore("t1"), "a") /\ HasId(MedsBefore("t2"), "a")
    /\ HasId(Meds, "a")
    /\ SupplyOf(MedsBefore("t1"), "a") = 1
    /\ SupplyOf(MedsBefore("t2"), "a") = 0
    /\ SupplyOf(Meds, "a") = 0

\* C7: after an addMedication(m) that resolves and that no call overlaps,
\* the persisted list is the previous list with m appended, field for
\* field.
C7_AddAppendsOneEntry ==
    \A t \in Tasks :
        ResolvedAlone(t, "addMedication")
        => SameList(Meds, Append(MedsBefore(t), arg[t].m), MedKeys)

\* C8: after a deleteMedication(id) that resolves and that no call
\* overlaps, no persisted entry has that id and the entries with another
\* id are all there, unchanged and in their order.
C8_DeleteRemovesOnlyThatId ==
    \A t \in Tasks :
        ResolvedAlone(t, "deleteMedication")
        => /\ ~HasId(Meds, arg[t].id)
           /\ Meds = Remaining(MedsBefore(t),
                                LAMBDA med : med.id # arg[t].id)

\* C9: clearDataForDateRange(start, end) removes exactly the medications
\* whose startDate and the doses whose timestamp lie in [start, end],
\* bounds included; the entries before start or after end remain.
C9_ClearRangeRemovesExactlyTheRange ==
    \A t \in Tasks :
        ResolvedAlone(t, "clearDataForDateRange")
        => /\ Meds = Remaining(MedsBefore(t), LAMBDA med :
                        ~(arg[t].startDate <= med.startDate
                          /\ med.startDate <= arg[t].endDate))
           /\ Hist = Remaining(HistBefore(t), LAMBDA dose :
                        ~(arg[t].startDate <= dose.timestamp
                          /\ dose.timestamp <= arg[t].endDate))

\* C10: updateMedication(m) replaces the first stored entry with m's id
\* by m and changes nothing else; without such an entry it resolves
\* without a store write.
C10_UpdateReplacesFirstMatch ==
    \A t \in Tasks :
        ResolvedAlone(t, "updateMedication")
        => IF HasId(MedsBefore(t), arg[t].m.id)
           THEN SameList(Meds,
                         [MedsBefore(t) EXCEPT
                            ![FirstWithId(MedsBefore(t), arg[t].m.id)] =
                                arg[t].m],
                         MedKeys)
           ELSE medsBlob = preMeds[t]

\* C11: getMedications and getDoseHistory always resolve; they return []
\* when the key has no item and when getItem rejects, and they leave both
\* stored collections as they were.
C11_ReadsNeverFail ==
    \A t \in Tasks :
        (last = t /\ op[t] \in {"getMedications", "getDoseHistory"})
        => /\ pc[t] = "resolved"
           /\ medsBlob = preMeds[t]
           /\ histBlob = preHist[t]
           /\ (op[t] = "getMedications"
                    /\ (faulted[t] \/ ~medsBlob.present))
              => lmeds[t] = <<>>
           /\ (op[t] = "getDoseHistory"
                    /\ (faulted[t] \/ ~histBlob.present))
              => lhist[t] = <<>>
           /\ (op[t] = "getMedications" /\ ~faulted[t]) => lmeds[t] = Meds
           /\ (op[t] = "getDoseHistory" /\ ~faulted[t]) => lhist[t] = Hist

\* getMedications has returned [] after a rejected getItem, with two
\* medications stored.
C11_Witness ==
    /\ last = "t1" /\ op["t1"] = "getMedications" /\ pc["t1"] = "resolved"
    /\ faulted["t1"]
    /\ Len(Meds) = 2
    /\ lmeds["t1"] = <<>>

\* C12: a call one of whose setItem or removeItem rejected has ended with
\* its promise rejected: it has not resolved and it has not gone on.
C12_FailedWriteIsReported ==
    \A t \in Tasks : wfailed[t] => pc[t] = "rejected"

\* A recordDose that has written the dose history and whose write of the
\* medications rejected: its promise is rejected.
C12_Witness ==
    /\ last = "t1" /\ pc["t2"] = "idle"
    /\ op["t1"] = "recordDose" /\ arg["t1"].taken
    /\ wfailed["t1"] /\ pc["t1"] = "rejected"
    /\ Len(Hist) = Len(HistBefore("t1")) + 1
    /\ medsBlob = preMeds["t1"]
    /\ HasId(Meds, arg["t1"].id) /\ SupplyOf(Meds, arg["t1"].id) > 0

\* Both tasks have called recordDose, the calls overlapped and both
\* promises have resolved.  The call of t1 started first: the collections
\* before both calls are those before t1's.
BothRecordedOverlapping ==
    /\ \A t \in Tasks : pc[t] = "resolved" /\ op[t] = "recordDose"
    /\ ~alone["t1"] /\ ~alone["t2"]

\* C13: after two overlapping recordDose calls have both resolved, the
\* persisted dose history is the history before them followed by two new
\* entries, one of each call.
C13_OverlappingDosesBothRecorded ==
    BothRecordedOverlapping
    => LET before == HistBefore("t1")
       IN  /\ Len(Hist) = Len(before) + 2
           /\ SubSeq(Hist, 1, Len(before)) = before
           /\ \A t \in Tasks :
                \E i \in (Len(before) + 1)..Len(Hist) :
                    /\ Hist[i].medicationId = arg[t].id
                    /\ Hist[i].taken = arg[t].taken
                    /\ Hist[i].timestamp = arg[t].timestamp

\* C14: after two overlapping recordDose(..., true, ...) calls for two
\* different stored medications, each with currentSupply > 0, have both
\* resolved, the persisted currentSupply of each is one less than before.
C14_OverlappingDosesOfTwoMedications ==
    LET before == MedsBefore("t1")
        id1 == arg["t1"].id
        id2 == arg["t2"].id
    IN  (/\ BothRecordedOverlapping
         /\ arg["t1"].taken /\ arg["t2"].taken
         /\ id1 # id2
         /\ HasId(before, id1) /\ HasId(before, id2)
         /\ SupplyOf(before, id1) > 0 /\ SupplyOf(before, id2) > 0)
        => /\ HasId(Meds, id1) /\ HasId(Meds, id2)
           /\ SupplyOf(Meds, id1) = SupplyOf(before, id1) - 1
           /\ SupplyOf(Meds, id2) = SupplyOf(before, id2) - 1

\* C15: after a clearOldData(beforeDate) that resolves and that no call
\* overlaps, the persisted medications are exactly the previous ones with
\* startDate >= beforeDate and the persisted doses exactly the previous
\* ones with timestamp >= beforeDate, unchanged and in their order.
C15_ClearOldKeepsFromBeforeDate ==
    \A t \in Tasks :
        ResolvedAlone(t, "clearOldData")
        => /\ Meds = Remaining(MedsBefore(t), LAMBDA med :
                        med.startDate >= arg[t].startDate)
           /\ Hist = Remaining(HistBefore(t), LAMBDA dose :
                        dose.timestamp >= arg[t].startDate)

\* C17: a recordDose(id, false, t), and a recordDose(id, true, t) when no
\* stored medication has that id, that resolves and that no call overlaps
\* leaves the previous dose history followed by one new entry with the
\* given medicationId, timestamp and taken, and leaves the stored
\* medications as they were.
C17_DoseWithoutDecrementOnlyAppends ==
    \A t \in Tasks :
        (/\ ResolvedAlone(t, "recordDose")
         /\ ~arg[t].taken \/ ~HasId(MedsBefore(t), arg[t].id))
        => LET before == HistBefore(t)
           IN  /\ Len(Hist) = Len(before) + 1
               /\ SubSeq(Hist, 1, Len(before)) = before
               /\ Hist[Len(Hist)].medicationId = arg[t].id
               /\ Hist[Len(Hist)].timestamp = arg[t].timestamp
               /\ Hist[Len(Hist)].taken = arg[t].taken
               /\ medsBlob = preMeds[t]

\* C18: no step of a deleteMedication call changes the stored dose
\* history; the doses of the deleted medication stay stored.
C18_DeleteLeavesHistory ==
    [][\A t \in Tasks :
            (pc'[t] # pc[t] /\ op'[t] = "deleteMedication")
            => histBlob' = histBlob]_vars

\* deleteMedication("a") has removed the stored medication a, and a dose
\* of a is still in the dose history.
C18_Witness ==
    /\ ResolvedAlone("t1", "deleteMedication")
    /\ arg["t1"].id = "a"
    /\ HasId(MedsBefore("t1"), "a") /\ ~HasId(Meds, "a") /\ Len(Meds) = 1
    /\ \E i \in 1..Len(Hist) : Hist[i].medicationId = "a"

\* The calls made so far are recordDose calls that did not overlap and
\* that have all resolved, and the dose history was empty before them.
OnlyDosesInTurn ==
    /\ pc["t1"] # "idle"
    /\ HistBefore("t1") = <<>>
    /\ \A t \in Tasks :
            pc[t] # "idle"
            => pc[t] = "resolved" /\ op[t] = "recordDose" /\ alone[t]

\* The number of persisted doses of medication id that were taken.
TakenCount(id) ==
    Cardinality({i \in 1..Len(Hist) :
                    Hist[i].medicationId = id /\ Hist[i].taken})

Max(x, y) == IF x >= y THEN x ELSE y

\* C19: from an empty dose history and a medication with currentSupply S,
\* after recordDose calls made in turn that have all resolved the
\* persisted currentSupply is max(0, S - k), k being the number of
\* persisted taken doses of the medication; and a call that is about to
\* write its decrement has its dose persisted as the last entry.
C19_SupplyFollowsTakenDoses ==
    /\ OnlyDosesInTurn
       => \A i \in 1..Len(MedsBefore("t1")) :
            LET m == MedsBefore("t1")[i]
            IN  /\ HasId(Meds, m.id)
                /\ SupplyOf(Meds, m.id)
                        = Max(0, m.currentSupply - TakenCount(m.id))
    /\ \A t \in Tasks :
            (pc[t] = "rec_upd_setItem" /\ alone[t] /\ Quiet(t))
            => /\ Hist # <<>>
               /\ Hist[Len(Hist)].medicationId = arg[t].id
               /\ Hist[Len(Hist)].taken


\* C20: once a deleteMedication(id) has resolved, no persisted medication
\* has that id, in that state and in every later one, unless addMedication
\* has been called with that id: a recordDose or updateMedication call
\* that overlaps the delete does not write the medication back.
C20_DeletedStaysDeleted ==
    \A t \in Tasks :
        (/\ pc[t] = "resolved" /\ op[t] = "deleteMedication"
         /\ \A u \in Tasks \ {t} :
                ~(op[u] = "addMedication" /\ arg[u].m.id = arg[t].id))
        => ~HasId(Meds, arg[t].id)

\* The stored records the call of task t was asked to remove.
AskedToRemoveMedication(t, med) ==
    CASE op[t] = "deleteMedication" -> med.id = arg[t].id
      [] op[t] = "clearDataForDateRange" ->
            arg[t].startDate <= med.startDate
            /\ med.startDate <= arg[t].endDate
      [] op[t] = "clearOldData" -> med.startDate < arg[t].startDate
      [] OTHER -> FALSE

AskedToRemoveDose(t, dose) ==
    CASE op[t] = "clearDataForDateRange" ->
            arg[t].startDate <= dose.timestamp
            /\ dose.timestamp <= arg[t].endDate
      [] op[t] = "clearOldData" -> dose.timestamp < arg[t].startDate
      [] OTHER -> FALSE

\* C21: when a getItem has rejected inside an addMedication, recordDose,
\* deleteMedication, clearDataForDateRange or clearOldData that no call
\* overlaps, every medication and every dose that was stored before the
\* call and that the call was not asked to remove is stored after it.
C21_ReadFailureKeepsRecords ==
    \A t \in Tasks :
        (/\ last = t /\ Returned(t) /\ alone[t] /\ faulted[t]
         /\ op[t] \in {"addMedication", "recordDose", "deleteMedication",
                       "clearDataForDateRange", "clearOldData"})
        => /\ \A i \in 1..Len(MedsBefore(t)) :
                ~AskedToRemoveMedication(t, MedsBefore(t)[i])
                => HasId(Meds, MedsBefore(t)[i].id)
           /\ \A i \in 1..Len(HistBefore(t)) :
                ~AskedToRemoveDose(t, HistBefore(t)[i])
                => \E j \in 1..Len(Hist) : Hist[j] = HistBefore(t)[i]

-----------------------------------------------------------------------------
(* Properties of isMedicationScheduledForDate (checked under SchedSpec) *)

\* The day count a reader finds in a duration text: its first integer.
WithInteger == {"0 days", "1 day", "2 days", "30 days", "for 3 days x2"}
DaysOf(text) ==
    CASE text = "0 days" -> 0
      [] text = "1 day" -> 1
      [] text = "2 days" -> 2
      [] text = "30 days" -> 30
      [] text = "for 3 days x2" -> 3

\* The calendar days (in local time) of the latest evaluation.
StartDay == LocalDay(query.medication.startDate)
QueryDay == LocalDay(query.date)

\* C4: for a duration other than "Ongoing" whose first integer is N >= 1
\* the medication is scheduled exactly on the calendar days from the start
\* day to the start day + (N - 1): day N is scheduled, day N + 1 is not.
C4_ScheduledExactlyNDays ==
    (/\ query.asked
     /\ query.medication.duration # "Ongoing"
     /\ query.medication.duration \in WithInteger
     /\ DaysOf(query.medication.duration) >= 1)
    => (query.result <=>
            /\ StartDay <= QueryDay
            /\ QueryDay <= StartDay + DaysOf(query.medication.duration) - 1)

\* "30 days" from 2024-01-01 is scheduled on 2024-01-30.
C4_Witness ==
    /\ query.asked
    /\ query.medication.duration = "30 days"
    /\ StartDay = Jan1
    /\ QueryDay = Jan1 + 29
    /\ query.result

\* C5: a date whose calendar day is before the start day is never
\* scheduled, whatever the duration is.
C5_NotScheduledBeforeStart ==
    (query.asked /\ QueryDay < StartDay) => ~query.result

\* The day before the start day, asked late in the day of a start early
\* in its day, for a duration without an integer.
C5_Witness ==
    /\ query.asked
    /\ query.medication.duration = "As needed"
    /\ QueryDay = StartDay - 1
    /\ query.date > query.medication.startDate - TicksPerDay
    /\ ~query.result

\* C6: an "Ongoing" medication is scheduled on every date whose calendar
\* day is the start day or a later one.
C6_OngoingScheduledFromStart ==
    (/\ query.asked
     /\ query.medication.duration = "Ongoing"
     /\ QueryDay >= StartDay)
    => query.result

\* An "Ongoing" medication asked about MaxSpan days after 2024-01-01.
C6_Witness ==
    /\ query.asked
    /\ query.medication.duration = "Ongoing"
    /\ QueryDay = Jan1 + MaxSpan
    /\ query.result

\* The duration texts that are not "Ongoing" and hold no digit.
WithoutInteger == Durations \ (WithInteger \cup {"Ongoing"})

\* C16: a medication whose duration is not "Ongoing" and holds no integer
\* is scheduled on every date whose calendar day is the start day or a
\* later one, as an "Ongoing" one is.
C16_NoIntegerIsUnbounded ==
    (/\ query.asked
     /\ query.medication.duration \in WithoutInteger
     /\ QueryDay >= StartDay)
    => query.result

\* "As needed" from 2024-01-31, asked about on its start day and MaxSpan
\* days after 2024-01-01.
C16_Witness ==
    /\ query.asked
    /\ query.medication.duration = "As needed"
    /\ StartDay = Jan31
    /\ QueryDay \in {Jan31, Jan1 + MaxSpan}
    /\ query.result

====
